---------------------------- MODULE Spec2Model ----------------------------
(***************************************************************************)
(* Model of src/githubRepoFetcher.py: the interactive session loop of      *)
(* GitHubRepoFetcher (run / search_and_display), the selection prompt,     *)
(* the paginated repository listing, the per-repository language fetch,    *)
(* display and export.                                                     *)
(*                                                                         *)
(* A line typed by the user is a sequence of one-character strings.  The   *)
(* remote API is the environment: every request is answered by a response  *)
(* drawn from a small set (success with a body, or a transport/HTTP        *)
(* failure).                                                               *)
(***************************************************************************)
EXTENDS Integers, Sequences, FiniteSets, TLC

(***************************************************************************)
(* Bounds of the model.                                                    *)
(***************************************************************************)
\* The account has at most MaxPages pages of repositories: the response to
\* page MaxPages never carries a 'next' link.
MaxPages == 2

(***************************************************************************)
(* Text: str.strip, str.lower and int                                      *)
(***************************************************************************)
Whitespace == {" ", "\t"}

Digits == {"0", "1", "2", "3", "4", "5", "6", "7", "8", "9"}

RECURSIVE lstrip(_)
lstrip(s) ==
    IF s # <<>> /\ Head(s) \in Whitespace THEN lstrip(Tail(s)) ELSE s

RECURSIVE rstrip(_)
rstrip(s) ==
    IF s # <<>> /\ s[Len(s)] \in Whitespace
    THEN rstrip(SubSeq(s, 1, Len(s) - 1))
    ELSE s

\* str.strip(): leading and trailing whitespace removed.
strip(s) == rstrip(lstrip(s))

lowerChar(c) ==
    CASE c = "Q" -> "q"
      [] c = "Y" -> "y"
      [] c = "E" -> "e"
      [] c = "S" -> "s"
      [] c = "N" -> "n"
      [] c = "A" -> "a"
      [] OTHER -> c

\* str.lower()
lower(s) == [i \in 1..Len(s) |-> lowerChar(s[i])]

digitValue(c) ==
    CASE c = "0" -> 0 [] c = "1" -> 1 [] c = "2" -> 2 [] c = "3" -> 3
      [] c = "4" -> 4 [] c = "5" -> 5 [] c = "6" -> 6 [] c = "7" -> 7
      [] c = "8" -> 8 [] c = "9" -> 9

\* The digit groups of an integer literal: digits, single underscores
\* only between digits.
isDigitGroup(s) ==
    /\ s # <<>>
    /\ \A i \in 1..Len(s) : s[i] \in Digits \cup {"_"}
    /\ s[1] # "_"
    /\ s[Len(s)] # "_"
    /\ \A i \in 1..(Len(s) - 1) : ~(s[i] = "_" /\ s[i + 1] = "_")

RECURSIVE digitsValue(_, _)
digitsValue(s, acc) ==
    IF s = <<>> THEN acc
    ELSE IF Head(s) = "_" THEN digitsValue(Tail(s), acc)
    ELSE digitsValue(Tail(s), 10 * acc + digitValue(Head(s)))

\* int(s): surrounding whitespace ignored, an optional sign, then digits.
\* ok = FALSE stands for ValueError.
int(s) ==
    LET t == strip(s)
        signed == t # <<>> /\ Head(t) \in {"+", "-"}
        body == IF signed THEN Tail(t) ELSE t
    IN  IF isDigitGroup(body)
        THEN [ok |-> TRUE,
              val |-> IF signed /\ Head(t) = "-"
                      THEN 0 - digitsValue(body, 0)
                      ELSE digitsValue(body, 0)]
        ELSE [ok |-> FALSE, val |-> 0]


(***************************************************************************)
(* The environment: what the user may type and what the API may answer     *)
(***************************************************************************)
MenuLines ==
    { <<"1">>, <<" ", "1">>, <<"1", "\t">>, <<"2">>, <<"2", " ">>,
      <<"3">>, <<"0">>, <<>>, <<" ">>, <<"1", "2">>, <<"q">>, <<"1", " ", "1">> }

QueryLines ==
    { <<>>, <<" ">>, <<" ", "\t", " ">>, <<"o">>, <<" ", "o", " ">> }

SelectLines ==
    { <<>>, <<" ">>, <<"0">>, <<"1">>, <<"2">>, <<"3">>, <<" ", "1", " ">>,
      <<"2", "\t">>, <<"+", "1">>, <<"-", "1">>, <<"-", "0">>, <<"0", "2">>,
      <<"1", "0">>, <<"1", "_", "0">>, <<"_", "1">>, <<"1", "a">>,
      <<"a", "b", "c">>, <<"q">>, <<"Q">>, <<" ", "q">>, <<"Q", " ">>,
      <<"q", "q">>, <<"1", " ", "2">>, <<"+">> }

ExportLines ==
    { <<"y">>, <<"Y">>, <<"y", "e", "s">>, <<"Y", "E", "S">>,
      <<" ", "y", " ">>, <<"Y", "e", "s", " ">>, <<"n">>, <<"N">>, <<>>,
      <<" ">>, <<"n", "o">>, <<"y", "e">>, <<"y", "y">>, <<"y", " ", "e", "s">>,
      <<"1">> }

FilenameLines == { <<>>, <<" ">>, <<"f">>, <<" ", "f">> }

\* Bodies the search endpoint may return with a 2xx status.
SearchBodies ==
    { [items |-> <<>>],
      [items |-> << [login |-> "octocat"] >>],
      [items |-> << [login |-> "octocat"], [login |-> "hubot"] >>],
      [message |-> "incomplete"] }

SearchResponses ==
    [status : {"ok"}, body : SearchBodies]
        \cup {[status |-> "err", body |-> [message |-> "error"]]}

\* Pages the repositories endpoint may return with a 2xx status.
PageBodies ==
    { <<>>,
      << [name |-> "r1"] >>,
      << [name |-> "r2"], [name |-> "r3"] >> }

\* A response to the request for page p: a failure, or a body with or
\* without a 'next' link (never a 'next' link on the account's last page).
PageResponses(p) ==
    {[status |-> "err", items |-> <<>>, next |-> FALSE]}
        \cup [status : {"ok"}, items : PageBodies,
              next : IF p < MaxPages THEN BOOLEAN ELSE {FALSE}]

LangBodies ==
    { <<>>,
      << [lang |-> "Go", bytes |-> 120], [lang |-> "Shell", bytes |-> 4] >> }

LangResponses ==
    [status : {"ok"}, body : LangBodies] \cup {[status |-> "err", body |-> <<>>]}

(***************************************************************************)
(* State                                                                   *)
(***************************************************************************)
VARIABLES
    pc,          \* where the session is
    inp,         \* the line most recently read from standard input
    last,        \* the branch the last step took
    users,       \* search_and_display: users
    username,    \* search_and_display: username ("" when None)
    repos,       \* get_user_repos: repos, then search_and_display: repos
    page,        \* get_user_repos: page
    idx,         \* position of the for loop of display_repos / export_to_json
    filename,    \* export_to_json: filename
    export_data, \* export_to_json: export_data
    searches,    \* queries sent to the search endpoint in this flow
    pageLog,     \* page requests (with their responses) and pauses of this flow
    listing,     \* what get_user_repos returned in this flow
    langLog,     \* language requests of this flow
    displayed,   \* names of the repositories printed by display_repos
    file,        \* the file written in this flow
    failure      \* the remote calls that failed in this flow

vars ==
    << pc, inp, last, users, username, repos, page, idx, filename,
       export_data, searches, pageLog, listing, langLog, displayed, file,
       failure >>

None == ""

NoExportData == [username |-> None, total_repositories |-> 0, repositories |-> <<>>]

NoFile == [written |-> FALSE, name |-> <<>>, data |-> NoExportData]

NotListed == [returned |-> FALSE, value |-> <<>>]

NoResponse == [status |-> "none", items |-> <<>>, next |-> FALSE]

FlowStates ==
    {"SEARCHING", "SELECTING", "FETCHING", "DISPLAYING", "EXPORT_PROMPT",
     "FILENAME_PROMPT", "EXPORTING", "WRITING"}

\* The number of HTTP requests issued in the current flow.
Requests ==
    Len(searches) + Cardinality({i \in 1..Len(pageLog) : pageLog[i].ev = "get"})
        + Len(langLog)

Init ==
    /\ pc = "MENU"
    /\ inp = <<>>
    /\ last = "start"
    /\ users = <<>>
    /\ username = None
    /\ repos = <<>>
    /\ page = 0
    /\ idx = 0
    /\ filename = <<>>
    /\ export_data = NoExportData
    /\ searches = <<>>
    /\ pageLog = <<>>
    /\ listing = NotListed
    /\ langLog = <<>>
    /\ displayed = <<>>
    /\ file = NoFile
    /\ failure = {}

(***************************************************************************)
(* The handlers' decisions, as functions of what they read                 *)
(***************************************************************************)
\* seq[i] of a Python list (0-based; a negative index counts from the end).
pyIndex(seq, i) == IF i >= 0 THEN seq[i + 1] ELSE seq[Len(seq) + i + 1]

\* Faulty variant: the menu line compared without trimming.
menuChoice_untrimmed(line) ==
    IF line = <<"1">> THEN "search"
    ELSE IF line = <<"2">> THEN "exit"
    ELSE "invalid"

\* run: the branch taken on the line read at the menu.
menuChoice(line) ==
    LET choice == strip(line)
    IN  IF choice = <<"1">> THEN "search"
        ELSE IF choice = <<"2">> THEN "exit"
        ELSE "invalid"

\* Faulty variant: the query tested without trimming.
searchQuery_untrimmed(line) == line

\* search_and_display: the query read at the prompt.
searchQuery(line) == strip(line)

\* Faulty variant: a failed request is not caught.
search_users_raises(resp) ==
    IF resp.status = "ok"
    THEN [raised |-> FALSE, failed |-> FALSE,
          value |-> IF "items" \in DOMAIN resp.body THEN resp.body.items ELSE <<>>]
    ELSE [raised |-> TRUE, failed |-> TRUE, value |-> <<>>]

\* search_users: the value returned (or the exception raised) on a response.
search_users(resp) ==
    IF resp.status = "ok"
    THEN [raised |-> FALSE, failed |-> FALSE,
          value |-> IF "items" \in DOMAIN resp.body THEN resp.body.items ELSE <<>>]
    ELSE [raised |-> FALSE, failed |-> TRUE, value |-> <<>>]

\* Faulty variant: the range test starts at 0.
selectChoice_fromZero(line, us) ==
    LET choice == strip(line)
        n == int(choice)
    IN  IF lower(choice) = <<"q">>
        THEN [kind |-> "quit", login |-> None]
        ELSE IF ~n.ok
        THEN [kind |-> "invalid", login |-> None]
        ELSE IF 0 <= n.val /\ n.val <= Len(us)
        THEN [kind |-> "selected", login |-> pyIndex(us, n.val - 1).login]
        ELSE [kind |-> "out_of_range", login |-> None]

\* display_user_selection: the outcome of one pass of the prompt loop.
selectChoice(line, us) ==
    LET choice == strip(line)
        n == int(choice)
    IN  IF lower(choice) = <<"q">>
        THEN [kind |-> "quit", login |-> None]
        ELSE IF ~n.ok
        THEN [kind |-> "invalid", login |-> None]
        ELSE IF 1 <= n.val /\ n.val <= Len(us)
        THEN [kind |-> "selected", login |-> pyIndex(us, n.val - 1).login]
        ELSE [kind |-> "out_of_range", login |-> None]

\* get_user_repos: the local state before the first request.
newListing == [repos |-> <<>>, page |-> 1]

\* Faulty variant: the 'next' link is not consulted.
pageStep_ignoresNext(rs, pg, resp) ==
    IF resp.status # "ok"
    THEN [repos |-> rs, page |-> pg, again |-> FALSE, slept |-> FALSE,
          raised |-> FALSE, failed |-> TRUE]
    ELSE IF resp.items = <<>>
    THEN [repos |-> rs, page |-> pg, again |-> FALSE, slept |-> FALSE,
          raised |-> FALSE, failed |-> FALSE]
    ELSE [repos |-> rs \o resp.items, page |-> pg + 1, again |-> TRUE,
          slept |-> TRUE, raised |-> FALSE, failed |-> FALSE]

\* Faulty variant: a failed page request is not caught.
pageStep_raises(rs, pg, resp) ==
    IF resp.status # "ok"
    THEN [repos |-> rs, page |-> pg, again |-> FALSE, slept |-> FALSE,
          raised |-> TRUE, failed |-> TRUE]
    ELSE IF resp.items = <<>>
    THEN [repos |-> rs, page |-> pg, again |-> FALSE, slept |-> FALSE,
          raised |-> FALSE, failed |-> FALSE]
    ELSE IF ~resp.next
    THEN [repos |-> rs \o resp.items, page |-> pg, again |-> FALSE,
          slept |-> FALSE, raised |-> FALSE, failed |-> FALSE]
    ELSE [repos |-> rs \o resp.items, page |-> pg + 1, again |-> TRUE,
          slept |-> TRUE, raised |-> FALSE, failed |-> FALSE]

\* Faulty variant: a failed page request is tried again.
pageStep_retries(rs, pg, resp) ==
    IF resp.status # "ok"
    THEN [repos |-> rs, page |-> pg, again |-> TRUE, slept |-> FALSE,
          raised |-> FALSE, failed |-> TRUE]
    ELSE IF resp.items = <<>>
    THEN [repos |-> rs, page |-> pg, again |-> FALSE, slept |-> FALSE,
          raised |-> FALSE, failed |-> FALSE]
    ELSE IF ~resp.next
    THEN [repos |-> rs \o resp.items, page |-> pg, again |-> FALSE,
          slept |-> FALSE, raised |-> FALSE, failed |-> FALSE]
    ELSE [repos |-> rs \o resp.items, page |-> pg + 1, again |-> TRUE,
          slept |-> TRUE, raised |-> FALSE, failed |-> FALSE]

\* get_user_repos: one pass of the while loop, on the response to the
\* request for `pg`.
pageStep(rs, pg, resp) ==
    IF resp.status # "ok"
    THEN [repos |-> rs, page |-> pg, again |-> FALSE, slept |-> FALSE,
          raised |-> FALSE, failed |-> TRUE]
    ELSE IF resp.items = <<>>
    THEN [repos |-> rs, page |-> pg, again |-> FALSE, slept |-> FALSE,
          raised |-> FALSE, failed |-> FALSE]
    ELSE IF ~resp.next
    THEN [repos |-> rs \o resp.items, page |-> pg, again |-> FALSE,
          slept |-> FALSE, raised |-> FALSE, failed |-> FALSE]
    ELSE [repos |-> rs \o resp.items, page |-> pg + 1, again |-> TRUE,
          slept |-> TRUE, raised |-> FALSE, failed |-> FALSE]

\* get_repo_languages: the value returned (or the exception raised).
get_repo_languages(resp) ==
    IF resp.status = "ok"
    THEN [raised |-> FALSE, failed |-> FALSE,
          value |-> [i \in 1..Len(resp.body) |-> resp.body[i].lang]]
    ELSE [raised |-> FALSE, failed |-> TRUE, value |-> <<>>]

\* Faulty variant: every pass of the display loop takes the first repository.
displayItem_first(rs, i) == rs[1]

\* display_repos: the repository printed by pass i of the for loop.
displayItem(rs, i) == rs[i]

\* Faulty variant: export walks the list from its end.
exportItem_reversed(rs, i) == rs[Len(rs) - i + 1]

\* export_to_json: the repository serialised by pass i of the for loop.
exportItem(rs, i) == rs[i]

\* Faulty variant: every reply but "n" exports.
exportChosen_unlessNo(line) ==
    LET export_choice == lower(strip(line))
    IN  export_choice # <<"n">>

\* search_and_display: whether the reply to the export prompt asks for it.
exportChosen(line) ==
    LET export_choice == lower(strip(line))
    IN  export_choice \in {<<"y">>, <<"y", "e", "s">>}

\* export_to_json: the file name used.
exportFilename(line, user) ==
    LET given == strip(line)
    IN  IF given # <<>> THEN given ELSE <<user, "_repositories.json">>

\* export_to_json: export_data before the for loop.  fetched_at, a reading
\* of the clock, is left out; of a repository only the name and the
\* languages fetched for it are kept.
newExportData(rs, user) ==
    [username |-> user, total_repositories |-> Len(rs), repositories |-> <<>>]

(***************************************************************************)
(* Steps of the session                                                    *)
(***************************************************************************)
\* An exception that nothing catches ends run().
Crash(label) ==
    /\ pc' = "CRASHED"
    /\ last' = label
    /\ UNCHANGED << users, username, repos, page, idx, filename, export_data >>

\* search_and_display returns: its locals are gone.
ReturnToMenu(label) ==
    /\ pc' = "MENU"
    /\ last' = label
    /\ users' = <<>>
    /\ username' = None
    /\ repos' = <<>>
    /\ page' = 0
    /\ idx' = 0
    /\ filename' = <<>>
    /\ export_data' = NoExportData

\* run: read the menu choice.
Menu(line) ==
    /\ pc = "MENU"
    /\ inp' = line
    /\ LET branch == menuChoice(line)
       IN  IF branch = "search"
           THEN /\ pc' = "SEARCHING"
                /\ last' = "menu_search"
                /\ searches' = <<>>
                /\ pageLog' = <<>>
                /\ listing' = NotListed
                /\ langLog' = <<>>
                /\ displayed' = <<>>
                /\ file' = NoFile
                /\ failure' = {}
           ELSE /\ pc' = IF branch = "exit" THEN "EXIT" ELSE "MENU"
                /\ last' = IF branch = "exit" THEN "menu_exit" ELSE "menu_invalid"
                /\ UNCHANGED << searches, pageLog, listing, langLog, displayed, file,
                                failure >>
    /\ UNCHANGED << users, username, repos, page, idx, filename, export_data >>

\* search_and_display: read the query, search, and list the users found.
Query(line, resp) ==
    /\ pc = "SEARCHING"
    /\ inp' = line
    /\ LET q == searchQuery(line)
           r == search_users(resp)
       IN  IF q = <<>>
           THEN /\ ReturnToMenu("query_empty")
                /\ UNCHANGED << searches, failure >>
           ELSE /\ searches' = Append(searches, q)
                /\ failure' = IF r.failed THEN failure \cup {"search"} ELSE failure
                /\ IF r.raised
                   THEN Crash("search_raised")
                   ELSE IF r.value = <<>>
                   THEN ReturnToMenu("no_users")
                   ELSE /\ pc' = "SELECTING"
                        /\ last' = "users_listed"
                        /\ users' = r.value
                        /\ UNCHANGED << username, repos, page, idx, filename,
                                        export_data >>
    /\ UNCHANGED << pageLog, listing, langLog, displayed, file >>

\* display_user_selection: read one reply to the selection prompt.
Select(line) ==
    /\ pc = "SELECTING"
    /\ inp' = line
    /\ LET c == selectChoice(line, users)
       IN  IF c.kind = "quit"
           THEN ReturnToMenu("select_quit")
           ELSE IF c.kind = "selected"
           THEN IF c.login = None
                THEN ReturnToMenu("select_none")
                ELSE /\ pc' = "FETCHING"
                     /\ last' = "selected"
                     /\ username' = c.login
                     /\ repos' = newListing.repos
                     /\ page' = newListing.page
                     /\ UNCHANGED << users, idx, filename, export_data >>
           ELSE /\ pc' = "SELECTING"
                /\ last' = IF c.kind = "invalid" THEN "reprompt_invalid"
                           ELSE "reprompt_range"
                /\ UNCHANGED << users, username, repos, page, idx, filename,
                                export_data >>
    /\ UNCHANGED << searches, pageLog, listing, langLog, displayed, file,
                                failure >>

\* get_user_repos: request the current page and act on the response; when
\* the loop ends, search_and_display goes on with what was accumulated.
FetchPage(resp) ==
    /\ pc = "FETCHING"
    /\ page <= MaxPages
    /\ LET s == pageStep(repos, page, resp)
           got == [ev |-> "get", page |-> page, resp |-> resp]
           pause == [ev |-> "sleep", page |-> page, resp |-> NoResponse]
       IN  /\ pageLog' = IF s.slept THEN pageLog \o <<got, pause>>
                         ELSE Append(pageLog, got)
           /\ failure' = IF s.failed THEN failure \cup {"repos"} ELSE failure
           /\ listing' = IF s.raised \/ s.again THEN listing
                         ELSE [returned |-> TRUE, value |-> s.repos]
           /\ IF s.raised
              THEN Crash("repos_raised")
              ELSE IF s.again
              THEN /\ pc' = "FETCHING"
                   /\ last' = "next_page"
                   /\ repos' = s.repos
                   /\ page' = s.page
                   /\ UNCHANGED << users, username, idx, filename, export_data >>
              ELSE IF s.repos = <<>>
              THEN ReturnToMenu("no_repos")
              ELSE /\ pc' = "DISPLAYING"
                   /\ last' = "listed"
                   /\ repos' = s.repos
                   /\ page' = 0
                   /\ idx' = 1
                   /\ UNCHANGED << users, username, filename, export_data >>
    /\ UNCHANGED << inp, searches, langLog, displayed, file >>

\* display_repos: one pass of the for loop.
Display(resp) ==
    /\ pc = "DISPLAYING"
    /\ LET repo == displayItem(repos, idx)
           r == get_repo_languages(resp)
       IN  /\ displayed' = Append(displayed, repo.name)
           /\ langLog' = Append(langLog, [by |-> "display", repo |-> repo.name])
           /\ failure' = IF r.failed THEN failure \cup {"languages"} ELSE failure
           /\ IF r.raised
              THEN Crash("languages_raised")
              ELSE /\ pc' = IF idx < Len(repos) THEN "DISPLAYING" ELSE "EXPORT_PROMPT"
                   /\ last' = "displayed"
                   /\ idx' = IF idx < Len(repos) THEN idx + 1 ELSE 0
                   /\ UNCHANGED << users, username, repos, page, filename,
                                   export_data >>
    /\ UNCHANGED << inp, searches, pageLog, listing, file >>

\* search_and_display: read the reply to the export prompt.
ExportPrompt(line) ==
    /\ pc = "EXPORT_PROMPT"
    /\ inp' = line
    /\ IF exportChosen(line)
       THEN /\ pc' = "FILENAME_PROMPT"
            /\ last' = "export_chosen"
            /\ UNCHANGED << users, username, repos, page, idx, filename,
                            export_data >>
       ELSE ReturnToMenu("export_declined")
    /\ UNCHANGED << searches, pageLog, listing, langLog, displayed, file,
                                failure >>

\* search_and_display: read the file name; export_to_json starts.
Filename(line) ==
    /\ pc = "FILENAME_PROMPT"
    /\ inp' = line
    /\ pc' = "EXPORTING"
    /\ last' = "export_started"
    /\ filename' = exportFilename(line, username)
    /\ export_data' = newExportData(repos, username)
    /\ idx' = 1
    /\ UNCHANGED << users, username, repos, page, searches, pageLog, listing,
                    langLog, displayed, file, failure >>

\* export_to_json: one pass of the for loop.
ExportRepo(resp) ==
    /\ pc = "EXPORTING"
    /\ LET repo == exportItem(repos, idx)
           r == get_repo_languages(resp)
           repo_data == [name |-> repo.name, languages |-> r.value]
       IN  /\ langLog' = Append(langLog, [by |-> "export", repo |-> repo.name])
           /\ failure' = IF r.failed THEN failure \cup {"languages"} ELSE failure
           /\ IF r.raised
              THEN Crash("languages_raised")
              ELSE /\ pc' = IF idx < Len(repos) THEN "EXPORTING" ELSE "WRITING"
                   /\ last' = "serialised"
                   /\ idx' = IF idx < Len(repos) THEN idx + 1 ELSE 0
                   /\ export_data' =
                          [export_data EXCEPT
                              !.repositories = Append(@, repo_data)]
                   /\ UNCHANGED << users, username, repos, page, filename >>
    /\ UNCHANGED << inp, searches, pageLog, listing, displayed, file >>

\* export_to_json: open the file and dump export_data; a failure to write
\* is reported and nothing is written.
WriteFile(ok) ==
    /\ pc = "WRITING"
    /\ file' = IF ok THEN [written |-> TRUE, name |-> filename, data |-> export_data]
               ELSE file
    /\ ReturnToMenu(IF ok THEN "exported" ELSE "export_error")
    /\ UNCHANGED << inp, searches, pageLog, listing, langLog, displayed,
                    failure >>

Next ==
    \/ \E line \in MenuLines : Menu(line)
    \/ \E line \in QueryLines : \E resp \in SearchResponses : Query(line, resp)
    \/ \E line \in SelectLines : Select(line)
    \/ \E resp \in PageResponses(page) : FetchPage(resp)
    \/ \E resp \in LangResponses : Display(resp)
    \/ \E line \in ExportLines : ExportPrompt(line)
    \/ \E line \in FilenameLines : Filename(line)
    \/ \E resp \in LangResponses : ExportRepo(resp)
    \/ \E ok \in BOOLEAN : WriteFile(ok)

Spec == Init /\ [][Next]_vars

\* Every call (input(), requests.get, open) returns: a step that can be
\* taken is taken.
FairSpec == Spec /\ WF_vars(Next)

(***************************************************************************)
(* Vocabulary of the properties                                            *)
(***************************************************************************)
IsGet(e) == e.ev = "get"

\* The page requests of the current flow, in the order issued.
Gets == SelectSeq(pageLog, IsGet)

RECURSIVE Concat(_)
Concat(ss) == IF ss = <<>> THEN <<>> ELSE Head(ss) \o Concat(Tail(ss))

\* The items of the first k page responses, concatenated in page order.
ItemsUpTo(g, k) == Concat([i \in 1..k |-> g[i].resp.items])

Names(rs) == [i \in 1..Len(rs) |-> rs[i].name]

LangRequests(by, rs) == [i \in 1..Len(rs) |-> [by |-> by, repo |-> rs[i].name]]

FullPage(r) == r.status = "ok" /\ r.items # <<>>

WhitespaceOnly(line) == \A i \in 1..Len(line) : line[i] \in {" ", "\t"}

AfterDisplay == {"EXPORT_PROMPT", "FILENAME_PROMPT", "EXPORTING", "WRITING"}

(***************************************************************************)
(* Properties                                                              *)
(***************************************************************************)
\* C1: whenever the page responses of a listing are N non-empty pages of
\* which the first N-1 carry a 'next' link and page N carries none,
\* get_user_repos has issued exactly N requests, for pages 1..N in that
\* order, and has returned the items of pages 1..N concatenated in page order.
C1_ListingComplete ==
    LET g == Gets
    IN  \A N \in 1..Len(g) :
            ( /\ \A i \in 1..N : FullPage(g[i].resp)
              /\ \A i \in 1..(N - 1) : g[i].resp.next
              /\ ~g[N].resp.next )
            => /\ Len(g) = N
               /\ \A i \in 1..N : g[i].page = i
               /\ listing.returned
               /\ listing.value = ItemsUpTo(g, N)

\* A listing of two pages (three repositories) has been returned.
C1_Witness ==
    /\ pc = "DISPLAYING"
    /\ Len(Gets) = 2
    /\ Gets[2].resp.status = "ok"
    /\ listing.returned
    /\ Len(listing.value) = 3
    /\ repos = listing.value

\* C2: when the request for page K fails after pages 1..K-1 succeeded,
\* get_user_repos returns normally with the items of pages 1..K-1 in order
\* (the empty list when K = 1), and the failed request is its last request.
C2_PartialOnFailure ==
    LET g == Gets
    IN  \A K \in 1..Len(g) :
            ( /\ g[K].resp.status = "err"
              /\ \A i \in 1..(K - 1) : g[i].resp.status = "ok" )
            => /\ Len(g) = K
               /\ pageLog[Len(pageLog)] = g[K]
               /\ pc # "CRASHED"
               /\ pc # "FETCHING"
               /\ listing.returned
               /\ listing.value = ItemsUpTo(g, K - 1)

\* Page 2 failed and the listing returned page 1's repositories.
C2_Witness ==
    /\ Len(Gets) = 2
    /\ Gets[2].resp.status = "err"
    /\ pc = "DISPLAYING"
    /\ repos = Gets[1].resp.items
    /\ Len(repos) = 2

\* C3: at the selection prompt over n users, a line that after trimming is
\* "0", empty, not a number, or a number outside 1..n leaves the prompt
\* open (nothing returned, nothing raised); "q" or "Q" returns no selection;
\* a number k in 1..n returns the login of the k-th user listed.
C3_Selection ==
    [][ pc = "SELECTING" =>
          LET t == strip(inp')
              n == Len(users)
              k == int(t)
              reprompted ==
                  /\ pc' = "SELECTING"
                  /\ last' \in {"reprompt_invalid", "reprompt_range"}
                  /\ UNCHANGED << users, username, repos >>
          IN  /\ t \in {<<"q">>, <<"Q">>} =>
                    pc' = "MENU" /\ last' = "select_quit" /\ username' = None
              /\ t \in {<<"0">>, <<>>, <<"a", "b", "c">>, <<"3">>} => reprompted
              /\ (t \notin {<<"q">>, <<"Q">>} /\ ~k.ok) => reprompted
              /\ (k.ok /\ (k.val < 1 \/ k.val > n)) => reprompted
              /\ (k.ok /\ 1 <= k.val /\ k.val <= n) =>
                    /\ pc' = "FETCHING"
                    /\ last' = "selected"
                    /\ username' = users[k.val].login
      ]_vars

\* The prompt over two users was shown again after the reply "0".
C3_Witness ==
    /\ pc = "SELECTING"
    /\ Len(users) = 2
    /\ last = "reprompt_range"
    /\ strip(inp) = <<"0">>

\* C4: a query that is only whitespace sends no request, selects no user,
\* fetches no repository, and the session is back at the menu.
C4_BlankQuery ==
    [][ (pc = "SEARCHING" /\ WhitespaceOnly(inp')) =>
          /\ pc' = "MENU"
          /\ last' = "query_empty"
          /\ Requests' = 0
          /\ searches' = <<>> /\ pageLog' = <<>> /\ langLog' = <<>>
          /\ username' = None
          /\ ~listing'.returned
      ]_vars

\* A query of blanks was rejected.
C4_Witness ==
    /\ pc = "MENU"
    /\ last = "query_empty"
    /\ Len(inp) = 3
    /\ Requests = 0

\* C5: no failure of a remote call ends the session: the session never
\* dies of an exception, the step on which a call fails leaves it running,
\* it is back at the menu eventually, and only the menu choice "2" leads
\* to EXIT.
C5_FailuresSurvived ==
    /\ [](pc # "CRASHED")
    /\ [][ failure' # failure /\ failure' # {} => pc' \in FlowStates \cup {"MENU"} ]_vars
    /\ [][ pc' = "EXIT" /\ pc # "EXIT" => pc = "MENU" /\ strip(inp') = <<"2">> ]_vars
    /\ (failure # {} /\ pc \in FlowStates) ~> (pc = "MENU")

\* A flow in which a page request and a language request failed has ended
\* at the menu, its export written.
C5_Witness ==
    /\ pc = "MENU"
    /\ failure = {"repos", "languages"}
    /\ last = "exported"

\* C6: at the menu every line other than "1" and "2" (after trimming) keeps
\* the session at the menu with no request issued; "2" leads to EXIT; EXIT
\* is entered only from the menu and never left; a search flow is left only
\* for the menu.
C6_SessionLoop ==
    [][ /\ (pc = "MENU" /\ strip(inp') \notin {<<"1">>, <<"2">>}) =>
              /\ pc' = "MENU"
              /\ last' = "menu_invalid"
              /\ UNCHANGED << searches, pageLog, langLog >>
        /\ (pc = "MENU" /\ strip(inp') = <<"2">>) => pc' = "EXIT"
        /\ (pc = "MENU" /\ strip(inp') = <<"1">>) => pc' = "SEARCHING" /\ Requests' = 0
        /\ (pc' = "EXIT") => pc = "MENU"
        /\ (pc \in FlowStates) => pc' \in FlowStates \cup {"MENU"}
      ]_vars

\* After a flow that exported, the line "3" was refused at the menu.
C6_Witness ==
    /\ pc = "MENU"
    /\ last = "menu_invalid"
    /\ strip(inp) = <<"3">>
    /\ file.written

\* C7: what display printed and what export wrote is the sequence that
\* get_user_repos returned in this flow, itself the pages fetched in this
\* flow; the snapshot's total_repositories is the length of its list.
C7_SameSequence ==
    /\ listing.returned =>
          /\ listing.value = ItemsUpTo(Gets, Len(Gets))
          /\ \A i \in 1..Len(displayed) : displayed[i] = listing.value[i].name
    /\ pc \in AfterDisplay =>
          /\ repos = listing.value
          /\ displayed = Names(listing.value)
    /\ pc \in {"EXPORTING", "WRITING"} =>
          /\ export_data.total_repositories = Len(listing.value)
          /\ \A i \in 1..Len(export_data.repositories) :
                export_data.repositories[i].name = listing.value[i].name
    /\ file.written =>
          /\ Names(file.data.repositories) = displayed
          /\ displayed = Names(listing.value)
          /\ file.data.total_repositories = Len(file.data.repositories)

\* A snapshot of three repositories from two pages was written.
C7_Witness ==
    /\ file.written
    /\ Len(file.data.repositories) = 3
    /\ Len(Gets) = 2

\* C8: a file is written only in a flow whose listing is non-empty and
\* whose reply to the export prompt, trimmed and lower-cased, is "y" or
\* "yes"; any other reply ends the flow at the menu with no file written
\* and no further request.
C8_ExportOnlyOnYes ==
    [][ LET reply == lower(strip(inp'))
            yes == reply \in {<<"y">>, <<"y", "e", "s">>}
        IN  /\ (pc = "EXPORT_PROMPT" /\ ~yes) =>
                  /\ pc' = "MENU"
                  /\ last' = "export_declined"
                  /\ ~file'.written
                  /\ Requests' = Requests
            /\ (pc' = "FILENAME_PROMPT") =>
                  pc = "EXPORT_PROMPT" /\ yes /\ listing.value # <<>>
            /\ (pc' = "EXPORTING") => pc \in {"FILENAME_PROMPT", "EXPORTING"}
            /\ (pc' = "WRITING") => pc = "EXPORTING"
            /\ (file'.written /\ file' # file) => pc = "WRITING"
      ]_vars

\* The reply "n" ended a flow that had displayed repositories.
C8_Witness ==
    /\ pc = "MENU"
    /\ last = "export_declined"
    /\ strip(inp) = <<"n">>
    /\ displayed # <<>>
    /\ ~file.written

\* C9: display requests the languages of each repository once, in sequence
\* order, and export requests them all again in the same order: n requests
\* in a flow without export, 2n in a flow with export.
C9_LanguageRequests ==
    LET d == LangRequests("display", listing.value)
        e == LangRequests("export", listing.value)
        n == Len(listing.value)
    IN  /\ \A i \in 1..Len(langLog) : i <= 2 * n /\ langLog[i] = (d \o e)[i]
        /\ pc \in {"EXPORT_PROMPT", "FILENAME_PROMPT"} => langLog = d
        /\ (pc = "MENU" /\ last = "export_declined") => langLog = d /\ Len(langLog) = n
        /\ (pc = "WRITING" \/ (pc = "MENU" /\ last \in {"exported", "export_error"})) =>
              langLog = d \o e /\ Len(langLog) = 2 * n /\ n >= 1

\* A flow over three repositories exported: six language requests.
C9_Witness ==
    /\ pc = "MENU"
    /\ last = "exported"
    /\ Len(listing.value) = 3
    /\ Len(langLog) = 6

\* C10: pages are requested as 1, 2, 3, ... with no page requested twice;
\* page p+1 is requested only after page p came back non-empty with a
\* 'next' link, with exactly one pause between the two requests; nothing
\* follows an empty page, a page without a 'next' link or a failed request.
C10_Pagination ==
    LET g == Gets
        goesOn(r) == FullPage(r) /\ r.next
    IN  /\ \A i \in 1..Len(g) : g[i].page = i
        /\ \A i \in 1..(Len(g) - 1) : goesOn(g[i].resp)
        /\ \A j \in 1..Len(pageLog) :
              IF j % 2 = 1
              THEN pageLog[j].ev = "get"
              ELSE pageLog[j].ev = "sleep" /\ goesOn(pageLog[j - 1].resp)
        /\ (pageLog # <<>> /\ pageLog[Len(pageLog)].ev = "get") =>
              /\ ~goesOn(pageLog[Len(pageLog)].resp)
              /\ pc # "FETCHING"
        /\ pc = "FETCHING" =>
              /\ page = Len(g) + 1
              /\ ~listing.returned
              /\ (pageLog # <<>> => pageLog[Len(pageLog)].ev = "sleep")

\* Page 1 was empty but carried a 'next' link: the listing ended there.
C10_Witness ==
    /\ pageLog # <<>>
    /\ Len(pageLog) = 1
    /\ pageLog[1].resp.status = "ok"
    /\ pageLog[1].resp.items = <<>>
    /\ pageLog[1].resp.next
    /\ listing.returned
    /\ pc = "MENU"

=============================================================================
